---- MODULE Spec2Model ----
(***************************************************************************)
(* One-way directory synchronisation (main.py): a driver that runs         *)
(* `amount` passes of synchronize(source, replica, log).  The two trees    *)
(* are modelled over a small universe of relative paths; a pass is the     *)
(* sequence get_directory_contents x2, create_replica_root,                *)
(* sync_directories, sync_files, remove_item.                              *)
(***************************************************************************)
EXTENDS Integers, Sequences, FiniteSets, TLC

\* ------------------------------------------------------------------ bounds
\* File contents are 1..MaxContent (all of the same size).
MaxContent == 2
\* The driver's pass count `amount` ranges over 0..MaxAmount.
MaxAmount == 2

\* ------------------------------------------------------- the path universe
\* Relative paths: two top-level names and one name nested below "a".
Paths == {"a", "b", "a/x"}

\* os.path.dirname of a relative path; "" is the tree's root.
Dirname(p) == IF p = "a/x" THEN "a" ELSE ""

RECURSIVE Ancestors(_)
\* The proper ancestors of p inside the tree (the root excluded).
Ancestors(p) ==
    IF Dirname(p) = "" THEN {} ELSE {Dirname(p)} \cup Ancestors(Dirname(p))

Descendants(p) == {q \in Paths : p \in Ancestors(q)}

Children(d) == {q \in Paths : Dirname(q) = d}

\* ------------------------------------------------------------- file trees
NoEntry == [type |-> "none", data |-> 0]
DirEntry == [type |-> "dir", data |-> 0]
FileEntry(c) == [type |-> "file", data |-> c]

Entries == {NoEntry, DirEntry} \cup {FileEntry(c) : c \in 1..MaxContent}

EmptyTree == [p \in Paths |-> NoEntry]

\* A tree is a filesystem state: an entry exists only inside a directory.
ValidTree(t) ==
    \A p \in Paths :
        (t[p].type # "none" /\ Dirname(p) # "") => t[Dirname(p)].type = "dir"

Trees == {t \in [Paths -> Entries] : ValidTree(t)}

FilesOf(t) == {p \in Paths : t[p].type = "file"}

Present(t) == {p \in Paths : t[p].type # "none"}

\* ---------------------------------------------------------------- state
VARIABLES
    srcRoot,          \* the source root exists
    src,              \* the source tree
    srcUnr,           \* source files that cannot be opened for reading
    repRoot,          \* the replica root exists
    rep,              \* the replica tree
    repUnr,           \* replica files that cannot be opened for reading
    denied,           \* replica paths whose creation, write or removal fails
    logFile,          \* the log file: [kind, recs]
    logEnv,           \* whether the log file can be written
    amount,           \* main's pass count
    iteration,        \* main's loop variable
    pc,               \* position of main / synchronize
    source_contents,  \* synchronize's local snapshot of the source
    replica_contents, \* synchronize's local snapshot of the replica
    processed,        \* synchronize's local set of processed paths
    exc,              \* the exception raised by the running pass, or "none"
    ops,              \* history: filesystem operations attempted by the pass
    passLog,          \* history: length of the log when the pass started
    nfail,            \* history: failures caught and swallowed by the pass
    srcAtStart,       \* history: the source root existed when the pass started
    repAtStart,       \* history: the replica tree when the pass started
    rootAtStart,      \* history: the replica root existed when the pass started
    prevClean,        \* history: the previous pass succeeded, source untouched since
    passes            \* history: number of passes started

vars == <<srcRoot, src, srcUnr, repRoot, rep, repUnr, denied, logFile, logEnv,
          amount, iteration, pc, source_contents, replica_contents, processed,
          exc, ops, passLog, nfail, srcAtStart, repAtStart, rootAtStart, prevClean,
          passes>>

\* ------------------------------------------------------------ snapshotting
\* calculate_md5's result when the file cannot be read (Python's None).
None == <<>>

\* Mutant of calculate_md5: a stamp of the file's size instead of a digest of
\* its bytes (every modelled content has the same size).
calculate_size_stamp(t, unr, p) ==
    IF p \in unr THEN None ELSE <<"size", "same">>

\* calculate_md5: the digest of the file's bytes (MD5 taken as injective on the
\* modelled contents), or None when the file cannot be opened or read.
calculate_md5(t, unr, p) ==
    IF p \in unr THEN None ELSE <<"md5", t[p].data>>

\* All orderings of a finite set, as sequences.
Perms(S) ==
    {s \in [1..Cardinality(S) -> S] : \A i, j \in DOMAIN s : i # j => s[i] # s[j]}

RECURSIVE WalkFrom(_, _), SubWalks(_, _)
\* The orders in which os.walk(top-down) can list the entries below directory
\* d: d's sub-directories, then d's files, then each sub-directory's own walk
\* in the order the sub-directories were listed.  The order among siblings is
\* the operating system's.
WalkFrom(t, d) ==
    UNION { { ds \o fs \o sub : sub \in SubWalks(t, ds) } :
            <<ds, fs>> \in Perms({q \in Children(d) : t[q].type = "dir"})
                           \X Perms({q \in Children(d) : t[q].type = "file"}) }

SubWalks(t, ds) ==
    IF ds = <<>> THEN {<<>>}
    ELSE { h \o tl : <<h, tl>> \in WalkFrom(t, Head(ds)) \X SubWalks(t, Tail(ds)) }

\* The mapping get_directory_contents builds: a directory entry carries only
\* its type, a file entry its type and hash.
SnapshotInfo(t, unr) ==
    [p \in Present(t) |->
        IF t[p].type = "dir" THEN [type |-> "dir"]
        ELSE [type |-> "file", hash |-> calculate_md5(t, unr, p)]]

EmptyContents == [order |-> <<>>, info |-> <<>>]

\* get_directory_contents: the possible results (one per listing order); the
\* dict is a mapping plus its insertion order.
get_directory_contents(exists, t, unr) ==
    IF ~exists THEN {EmptyContents}
    ELSE {[order |-> o, info |-> SnapshotInfo(t, unr)] : o \in WalkFrom(t, "")}

\* ------------------------------------------------------------------ logging
NoLog == [kind |-> "absent", recs |-> <<>>]

\* Mutant of log_operation: the file is rewritten with the new entry alone, the
\* existing list is not loaded.
log_operation_overwrite(st, operation, path) ==
    LET log_entry == [operation |-> operation, path |-> path]
    IN  IF logEnv = "nodir" THEN [st EXCEPT !.exc = "OSError"]
        ELSE IF logEnv = "nowrite" THEN st
        ELSE [st EXCEPT !.logFile = [kind |-> "list", recs |-> <<log_entry>>]]

\* log_operation on the pass state st: read the existing list (a missing,
\* unreadable or unparsable file gives []), append the entry, rewrite the file.
\* JSON of another shape than a list has no append; a failed write is only
\* warned about.
log_operation(st, operation, path) ==
    LET log_entry == [operation |-> operation, path |-> path]
        logs == IF st.logFile.kind = "list" THEN st.logFile.recs ELSE <<>>
    IN  IF st.logFile.kind = "notlist" THEN [st EXCEPT !.exc = "AttributeError"]
        ELSE IF logEnv = "nodir" THEN [st EXCEPT !.exc = "OSError"]
        ELSE IF logEnv = "nowrite" THEN st
        ELSE [st EXCEPT !.logFile = [kind |-> "list", recs |-> Append(logs, log_entry)]]

\* ------------------------------------------------- filesystem primitives
\* An entry of the history of attempted filesystem operations.
Op(kind, path, ok) == [kind |-> kind, path |-> path, ok |-> ok]

\* Whether os.makedirs cannot get past q: q is a file, or is missing and
\* cannot be created.
CannotMake(t, q) ==
    t[q].type = "file" \/ (t[q].type = "none" /\ q \in denied)

\* os.makedirs(replica/p, exist_ok=True): creates p and its missing ancestors,
\* top-down, up to the first one it cannot make.
Makedirs(t, p) ==
    LET chain == Ancestors(p) \cup {p}
        made == {q \in chain :
                    /\ t[q].type = "none"
                    /\ \A r \in (Ancestors(q) \cup {q}) : ~CannotMake(t, r)}
    IN  [ok |-> \A q \in chain : ~CannotMake(t, q),
         tree |-> [q \in Paths |-> IF q \in made THEN DirEntry ELSE t[q]]]

\* os.path.exists(replica/p)
Exists(t, p) == t[p].type # "none"

\* shutil.copy2(source/p, replica/p) succeeds when the source can be read, the
\* target's parent is a directory, the target is not a directory and can be
\* written.
CanCopy(t, p) ==
    /\ src[p].type = "file"
    /\ p \notin srcUnr
    /\ \A q \in Ancestors(p) : t[q].type = "dir"
    /\ t[p].type # "dir"
    /\ p \notin denied

\* shutil.rmtree(replica/p): removes bottom-up what it can; it fails, leaving
\* the rest, when an entry of the subtree cannot be removed.
Rmtree(t, p) ==
    LET sub == {p} \cup Descendants(p)
        stuck(q) == \E r \in ({q} \cup Descendants(q)) : Exists(t, r) /\ r \in denied
        gone == {q \in sub : ~stuck(q)}
    IN  [ok |-> ~stuck(p),
         tree |-> [q \in Paths |-> IF q \in gone THEN NoEntry ELSE t[q]]]

\* --------------------------------------------------------- the pass's loops
\* The state a pass threads through its loops: the two trees, the log file, the
\* local `processed` set, the raised exception and the histories.
PassState(proc) ==
    [src |-> src, rep |-> rep, repUnr |-> repUnr, logFile |-> logFile,
     processed |-> proc, exc |-> "none", ops |-> ops, nfail |-> nfail]

\* One iteration of sync_directories' loop, for source entry rel_path.
SyncDirStep(st, rel_path) ==
    IF st.exc # "none" \/ source_contents.info[rel_path].type # "dir" THEN st
    ELSE IF rel_path \notin DOMAIN replica_contents.info THEN
        LET m == Makedirs(st.rep, rel_path)
            st1 == [st EXCEPT !.rep = m.tree,
                              !.ops = Append(@, Op("makedirs", rel_path, m.ok))]
            st2 == log_operation(st1, "CREATE", rel_path)
        IN  IF ~m.ok THEN [st1 EXCEPT !.exc = "OSError"]
            ELSE IF st2.exc # "none" THEN st2
            ELSE [st2 EXCEPT !.processed = @ \cup {rel_path}]
    ELSE [st EXCEPT !.processed = @ \cup {rel_path}]

\* Mutant of FileDecision: a file already in the replica is always rewritten,
\* without comparing hashes.
FileDecisionAlwaysUpdate(rel_path) ==
    IF rel_path \notin DOMAIN replica_contents.info THEN "COPY"
    ELSE IF "hash" \notin DOMAIN replica_contents.info[rel_path] THEN "KeyError"
    ELSE "UPDATE"

\* Mutant of FileDecision: a file missing from the replica is reported as an
\* update.
FileDecisionMislabel(rel_path) ==
    LET info == source_contents.info[rel_path]
    IN  IF rel_path \notin DOMAIN replica_contents.info THEN "UPDATE"
        ELSE IF "hash" \notin DOMAIN replica_contents.info[rel_path] THEN "KeyError"
        ELSE IF replica_contents.info[rel_path].hash # info.hash THEN "UPDATE"
        ELSE "SKIP"

\* sync_files' decision for a source file: "COPY" when the path is not in the
\* replica snapshot, "UPDATE" when the replica entry's hash differs, "SKIP"
\* otherwise; reading "hash" of a directory entry raises KeyError.
FileDecision(rel_path) ==
    LET info == source_contents.info[rel_path]
    IN  IF rel_path \notin DOMAIN replica_contents.info THEN "COPY"
        ELSE IF "hash" \notin DOMAIN replica_contents.info[rel_path] THEN "KeyError"
        ELSE IF replica_contents.info[rel_path].hash # info.hash THEN "UPDATE"
        ELSE "SKIP"

\* Mutant of CopyStep: shutil.copy2 is called with its arguments swapped, the
\* replica file is copied over the source file.
CopyStepSwapped(st, rel_path, operation) ==
    LET ok == st.rep[rel_path].type = "file" /\ rel_path \notin st.repUnr
        st2 == [st EXCEPT !.ops = Append(@, Op(operation, rel_path, ok))]
        st3 == [st2 EXCEPT !.src[rel_path] = FileEntry(st.rep[rel_path].data)]
    IN  IF ~ok THEN [st2 EXCEPT !.exc = "OSError"]
        ELSE log_operation(st3, operation, rel_path)

\* The copy branch of sync_files: make the parent directory when it does not
\* exist, copy the file (content and mode) from the source to the replica, log
\* the operation.
CopyStep(st, rel_path, operation) ==
    LET parent_dir == Dirname(rel_path)
        mk == parent_dir # "" /\ ~Exists(st.rep, parent_dir)
        m == IF mk THEN Makedirs(st.rep, parent_dir) ELSE [ok |-> TRUE, tree |-> st.rep]
        st1 == IF mk
               THEN [st EXCEPT !.rep = m.tree,
                               !.ops = Append(@, Op("makedirs", parent_dir, m.ok))]
               ELSE st
        ok == CanCopy(st1.rep, rel_path)
        st2 == [st1 EXCEPT !.ops = Append(@, Op(operation, rel_path, ok))]
        st3 == [st2 EXCEPT !.rep[rel_path] = FileEntry(st.src[rel_path].data),
                           !.repUnr = @ \ {rel_path}]
    IN  IF ~m.ok THEN [st1 EXCEPT !.exc = "OSError"]
        ELSE IF ~ok THEN [st2 EXCEPT !.exc = "OSError"]
        ELSE log_operation(st3, operation, rel_path)

\* One iteration of sync_files' loop, for source entry rel_path.
SyncFileStep(st, rel_path) ==
    IF st.exc # "none" \/ source_contents.info[rel_path].type # "file" THEN st
    ELSE
        LET d == FileDecision(rel_path)
            st1 == IF d = "SKIP" THEN st ELSE CopyStep(st, rel_path, d)
        IN  IF d = "KeyError" THEN [st EXCEPT !.exc = "KeyError"]
            ELSE IF st1.exc # "none" THEN st1
            ELSE [st1 EXCEPT !.processed = @ \cup {rel_path}]

\* One iteration of remove_item's loop, for replica entry rel_path.  Only the
\* directory branch has a try block, and it catches OSError alone.
RemoveStep(st, rel_path) ==
    IF st.exc # "none" \/ rel_path \in st.processed \/ ~Exists(st.rep, rel_path)
    THEN st
    ELSE IF replica_contents.info[rel_path].type = "file" THEN
        LET ok == rel_path \notin denied
            st1 == [st EXCEPT !.ops = Append(@, Op("remove", rel_path, ok))]
            st2 == [st1 EXCEPT !.rep[rel_path] = NoEntry, !.repUnr = @ \ {rel_path}]
        IN  IF ~ok THEN [st1 EXCEPT !.exc = "OSError"]
            ELSE log_operation(st2, "REMOVE", rel_path)
    ELSE
        LET r == Rmtree(st.rep, rel_path)
            st1 == [st EXCEPT !.rep = r.tree,
                              !.repUnr = @ \cap FilesOf(r.tree),
                              !.ops = Append(@, Op("rmtree", rel_path, r.ok))]
            st2 == log_operation(st1, "REMOVE", rel_path)
        IN  IF ~r.ok THEN [st1 EXCEPT !.nfail = @ + 1]
            ELSE IF st2.exc = "OSError" THEN [st2 EXCEPT !.exc = "none", !.nfail = @ + 1]
            ELSE st2

\* The body of the loop of one of the three functions.
LoopBody(phase, st, rel_path) ==
    CASE phase = "dirs" -> SyncDirStep(st, rel_path)
      [] phase = "files" -> SyncFileStep(st, rel_path)
      [] phase = "remove" -> RemoveStep(st, rel_path)

RECURSIVE ForEach(_, _, _)
\* A for loop over the keys of a snapshot, in insertion order; an exception
\* ends it (every step is the identity once st.exc is set).
ForEach(phase, st, keys) ==
    IF keys = <<>> THEN st
    ELSE ForEach(phase, LoopBody(phase, st, Head(keys)), Tail(keys))

\* Mutant of remove_item: the processed set is ignored.
remove_item_all(st) ==
    ForEach("remove", [st EXCEPT !.processed = {}], replica_contents.order)

\* Mutant of remove_item: the loop runs over the source snapshot.
remove_item_over_source(st) == ForEach("remove", st, source_contents.order)

\* sync_directories, sync_files and remove_item as whole loops.
sync_directories(st) == ForEach("dirs", st, source_contents.order)

sync_files(st) == ForEach("files", st, source_contents.order)

remove_item(st) == ForEach("remove", st, replica_contents.order)

\* -------------------------------------------------------------- the state
\* The configurations of at most one faulty path: the path may be denied in
\* the replica and unreadable on either side.
FaultSets == {{}} \cup {{p} : p \in Paths}

Init ==
    /\ srcRoot \in BOOLEAN
    /\ src \in (IF srcRoot THEN Trees ELSE {EmptyTree})
    /\ repRoot \in BOOLEAN
    /\ rep \in (IF repRoot THEN Trees ELSE {EmptyTree})
    /\ \E f \in FaultSets :
          /\ denied \in SUBSET f
          /\ srcUnr \in SUBSET (f \cap FilesOf(src))
          /\ repUnr \in SUBSET (f \cap FilesOf(rep))
    /\ logFile = NoLog
    /\ logEnv = "ok"
    /\ amount \in 0..MaxAmount
    /\ iteration = 0
    /\ pc = "main"
    /\ source_contents = EmptyContents
    /\ replica_contents = EmptyContents
    /\ processed = {}
    /\ exc = "none"
    /\ ops = <<>>
    /\ passLog = 0
    /\ nfail = 0
    /\ srcAtStart = TRUE
    /\ repAtStart = rep
    /\ rootAtStart = repRoot
    /\ prevClean = FALSE
    /\ passes = 0

\* A record written by an earlier run.
OldRecord == [operation |-> "COPY", path |-> "old"]

\* The log file a run can find: none, a list of records (empty or not), text
\* that is not JSON or cannot be read ("corrupt"), JSON that is not a list.
LogFiles ==
    {NoLog,
     [kind |-> "list", recs |-> <<>>],
     [kind |-> "list", recs |-> <<OldRecord>>],
     [kind |-> "corrupt", recs |-> <<>>],
     [kind |-> "notlist", recs |-> <<>>]}

\* The run's log environment: the file can be written ("ok"), opening it for
\* writing fails ("nowrite"), or its directory is missing and cannot be made
\* ("nodir", and then there is no log file).
InitLog ==
    /\ srcRoot \in BOOLEAN
    /\ src \in (IF srcRoot THEN Trees ELSE {EmptyTree})
    /\ repRoot \in BOOLEAN
    /\ rep \in (IF repRoot THEN Trees ELSE {EmptyTree})
    /\ denied = {}
    /\ srcUnr = {}
    /\ repUnr = {}
    /\ logFile \in LogFiles
    /\ logEnv \in {"ok", "nowrite", "nodir"}
    /\ logEnv = "nodir" => logFile = NoLog
    /\ amount \in 0..MaxAmount
    /\ iteration = 0
    /\ pc = "main"
    /\ source_contents = EmptyContents
    /\ replica_contents = EmptyContents
    /\ processed = {}
    /\ exc = "none"
    /\ ops = <<>>
    /\ passLog = Len(logFile.recs)
    /\ nfail = 0
    /\ srcAtStart = TRUE
    /\ repAtStart = rep
    /\ rootAtStart = repRoot
    /\ prevClean = FALSE
    /\ passes = 0

fsVars == <<srcRoot, src, srcUnr, repRoot, rep, repUnr, denied>>
srcVars == <<srcRoot, src, srcUnr>>
envVars == <<denied, logEnv>>
snapVars == <<source_contents, replica_contents>>
histVars == <<passLog, srcAtStart, repAtStart, rootAtStart, prevClean, passes>>

\* The length of the record list the log file holds.
LogLen == Len(logFile.recs)

\* Mutant of OnException: the loop goes on to its next iteration.
OnExceptionContinue == "synced"

\* What main does when synchronize raises: it prints the error and returns.
OnException == "returned"

\* Mutant of PhaseAfter: remove_item is called first.
PhaseAfterRemoveFirst(phase) ==
    CASE phase = "root" -> "remove"
      [] phase = "remove" -> "dirs"
      [] phase = "dirs" -> "files"
      [] phase = "files" -> "synced"

\* Mutant of PhaseAfter: sync_files is called before sync_directories.
PhaseAfterFilesFirst(phase) ==
    CASE phase = "root" -> "files"
      [] phase = "files" -> "dirs"
      [] phase = "dirs" -> "remove"
      [] phase = "remove" -> "synced"

\* The phases of synchronize after create_replica_root, in call order.
PhaseAfter(phase) ==
    CASE phase = "root" -> "dirs"
      [] phase = "dirs" -> "files"
      [] phase = "files" -> "remove"
      [] phase = "remove" -> "synced"

\* Where a phase that ended with the pass state st leaves the program.
Advance(phase, st) == IF st.exc # "none" THEN "raised" ELSE PhaseAfter(phase)

\* main up to its loop: the arguments are integers; a missing source path
\* ends the run before the first pass.
MainStart ==
    /\ pc = "main"
    /\ pc' = IF srcRoot THEN "loop" ELSE "nosource"
    /\ UNCHANGED <<fsVars, logFile, logEnv, amount, iteration, snapVars,
                   processed, exc, ops, nfail, histVars>>

\* Mutant of LoopContinues: the loop runs once more than asked.
LoopContinuesOffByOne == iteration <= amount

\* `for iteration in range(amount)`: whether another iteration follows.
LoopContinues == iteration < amount

\* The head of main's for loop: the next iteration calls synchronize, or the
\* loop is over.
LoopHead ==
    /\ pc = "loop"
    /\ IF LoopContinues
       THEN /\ pc' = "pass"
            /\ passes' = passes + 1
            /\ passLog' = LogLen
            /\ srcAtStart' = srcRoot
            /\ repAtStart' = rep
            /\ rootAtStart' = repRoot
            /\ ops' = <<>>
            /\ nfail' = 0
            /\ exc' = "none"
            /\ processed' = {}
            /\ UNCHANGED <<prevClean>>
       ELSE /\ pc' = "completed"
            /\ UNCHANGED <<histVars, ops, nfail, exc, processed>>
    /\ UNCHANGED <<fsVars, logFile, logEnv, amount, iteration, snapVars>>

\* synchronize, lines 151-152: the two snapshots.
GetContents ==
    /\ pc = "pass"
    /\ source_contents' \in get_directory_contents(srcRoot, src, srcUnr)
    /\ replica_contents' \in get_directory_contents(repRoot, rep, repUnr)
    /\ pc' = "root"
    /\ UNCHANGED <<fsVars, logFile, logEnv, amount, iteration, processed, exc,
                   ops, nfail, histVars>>

\* create_replica_root: make the replica root when it is missing, and log it.
CreateReplicaRoot ==
    /\ pc = "root"
    /\ LET st0 == PassState({})
           st == IF repRoot THEN st0
                 ELSE log_operation([st0 EXCEPT !.ops = Append(@, Op("makeroot", "", TRUE))],
                                    "CREATE", "<replica>")
       IN  /\ repRoot' = TRUE
           /\ logFile' = st.logFile
           /\ ops' = st.ops
           /\ exc' = st.exc
           /\ pc' = Advance("root", st)
    /\ UNCHANGED <<srcVars, rep, repUnr, envVars, amount, iteration, snapVars,
                   processed, nfail, histVars>>

\* A loop of the pass, run to its end or to the exception that leaves it.
RunPhase(phase, st) ==
    /\ src' = st.src
    /\ rep' = st.rep
    /\ repUnr' = st.repUnr
    /\ logFile' = st.logFile
    /\ ops' = st.ops
    /\ nfail' = st.nfail
    /\ exc' = st.exc
    /\ processed' = IF st.exc = "none" THEN processed \cup st.processed ELSE processed
    /\ pc' = Advance(phase, st)
    /\ UNCHANGED <<srcRoot, srcUnr, repRoot, envVars, amount, iteration, snapVars,
                   histVars>>

SyncDirectories ==
    /\ pc = "dirs"
    /\ RunPhase("dirs", sync_directories(PassState({})))

SyncFiles ==
    /\ pc = "files"
    /\ RunPhase("files", sync_files(PassState({})))

RemoveItem ==
    /\ pc = "remove"
    /\ RunPhase("remove", remove_item(PassState(processed)))

\* main's except clause.
HandleException ==
    /\ pc = "raised"
    /\ pc' = OnException
    /\ prevClean' = FALSE
    /\ UNCHANGED <<fsVars, logFile, logEnv, amount, iteration, snapVars, processed,
                   exc, ops, nfail, passLog, srcAtStart, repAtStart, rootAtStart,
                   passes>>

\* The end of a loop iteration whose pass returned: sleep when another
\* iteration follows.
EndIteration ==
    /\ pc = "synced"
    /\ pc' = IF iteration < amount - 1 THEN "sleep" ELSE "loop"
    /\ iteration' = iteration + 1
    /\ prevClean' = (nfail = 0)
    /\ UNCHANGED <<fsVars, logFile, logEnv, amount, snapVars, processed, exc, ops,
                   nfail, passLog, srcAtStart, repAtStart, rootAtStart, passes>>

\* time.sleep returns.
Wake ==
    /\ pc = "sleep"
    /\ pc' = "loop"
    /\ UNCHANGED <<fsVars, logFile, logEnv, amount, iteration, snapVars, processed,
                   exc, ops, nfail, histVars>>

\* The environment, between two passes: the source tree is deleted.
SourceVanish ==
    /\ pc = "sleep"
    /\ srcRoot
    /\ srcRoot' = FALSE
    /\ src' = EmptyTree
    /\ srcUnr' = {}
    /\ prevClean' = FALSE
    /\ UNCHANGED <<repRoot, rep, repUnr, envVars, logFile, amount, iteration, pc,
                   snapVars, processed, exc, ops, nfail, passLog, srcAtStart,
                   repAtStart, rootAtStart, passes>>

Next ==
    \/ MainStart
    \/ LoopHead
    \/ GetContents
    \/ CreateReplicaRoot
    \/ SyncDirectories
    \/ SyncFiles
    \/ RemoveItem
    \/ HandleException
    \/ EndIteration
    \/ Wake
    \/ SourceVanish

Spec == Init /\ [][Next]_vars

\* The runs over a fault-free filesystem with every kind of log file and log
\* environment.
SpecLog == InitLog /\ [][Next]_vars

\* ------------------------------------------------------ claim vocabulary
\* The pass has returned normally / has ended either way.
PassReturned == pc = "synced"

PassEnded == pc \in {"synced", "raised"}

\* The pass is running or has just ended.
InPass == pc \in {"pass", "root", "dirs", "files", "remove", "synced", "raised"}

\* No fault is configured: every file is readable, nothing is denied.
FaultFree == denied = {} /\ srcUnr = {} /\ repUnr = {}

\* Paths that are a file on one side and a directory on the other when the
\* pass starts.
KindConflicts ==
    {p \in Paths : /\ src[p].type # "none"
                   /\ repAtStart[p].type # "none"
                   /\ src[p].type # repAtStart[p].type}

\* The records the running pass has appended to the log.
PassRecords == SubSeq(logFile.recs, passLog + 1, LogLen)

\* The pass attempted / performed an operation of one of the kinds on path p.
Attempted(kinds, p) ==
    \E i \in DOMAIN ops : ops[i].kind \in kinds /\ ops[i].path = p

Performed(kinds, p) ==
    \E i \in DOMAIN ops : ops[i].kind \in kinds /\ ops[i].path = p /\ ops[i].ok

Logged(operation, p) ==
    \E i \in DOMAIN PassRecords :
        PassRecords[i].operation = operation /\ PassRecords[i].path = p

\* The replica's snapshot equals the source's.
Converged == SnapshotInfo(rep, repUnr) = SnapshotInfo(src, srcUnr)

\* ------------------------------------------------------------------ claims
\* C1 (as stated): whenever a pass has returned, on a filesystem without
\* faults, the replica's snapshot equals the source's snapshot: same paths,
\* same kinds, same fingerprints.
C1_Convergence == (PassReturned /\ FaultFree /\ nfail = 0) => Converged

\* C2: a pass that follows a successful pass (returned, no swallowed failure)
\* with the source untouched in between attempts no filesystem operation and
\* appends no record to the log.
C2_Idempotence == (InPass /\ prevClean) => (ops = <<>> /\ LogLen = passLog)

\* C2 witness: a second pass has returned after a successful first pass that
\* had work to do, over a non-empty source.
C2_Witness ==
    /\ PassReturned /\ prevClean /\ passes = 2
    /\ passLog > 0
    /\ FilesOf(src) # {}

\* C3: after a pass that returned without a swallowed failure, every entry that
\* was in the replica and is not in the source is gone, nested content
\* included; and at the end of any pass, returned or aborted, every path of a
\* REMOVE record the pass wrote is absent from the replica.
C3_DeletionCorrectness ==
    /\ (PassReturned /\ nfail = 0) =>
          \A p \in Present(repAtStart) : p \notin Present(src) => ~Exists(rep, p)
    /\ PassEnded => \A p \in Paths : Logged("REMOVE", p) => ~Exists(rep, p)

\* C3 witness: a returned pass removed a directory that existed only in the
\* replica together with an entry nested in it, and a file that existed only
\* in the replica.
C3_Witness ==
    /\ PassReturned /\ nfail = 0
    /\ \E d \in Paths :
          /\ repAtStart[d].type = "dir" /\ ~Exists(src, d)
          /\ \E q \in Descendants(d) : Exists(repAtStart, q)
          /\ Logged("REMOVE", d)
    /\ \E f \in Paths :
          repAtStart[f].type = "file" /\ ~Exists(src, f) /\ Logged("REMOVE", f)

\* Paths that are a file on both sides when the pass starts, both fingerprints
\* computed.
ComparedFiles ==
    {p \in Paths : /\ src[p].type = "file" /\ repAtStart[p].type = "file"
                   /\ source_contents.info[p].hash # None
                   /\ replica_contents.info[p].hash # None}

\* C4: in a pass that returned, for every path that is a file on both sides
\* (fingerprints computed), the file is overwritten with the source content
\* and UPDATE is logged exactly when the contents differ (all contents have
\* the same size); with equal contents nothing is done to the path.
C4_UpdateDetection ==
    PassReturned =>
        \A p \in ComparedFiles :
            IF repAtStart[p].data # src[p].data
            THEN /\ rep[p] = FileEntry(src[p].data)
                 /\ Performed({"UPDATE"}, p)
                 /\ Logged("UPDATE", p)
            ELSE /\ ~Attempted({"COPY", "UPDATE", "remove", "rmtree"}, p)
                 /\ \A i \in DOMAIN PassRecords : PassRecords[i].path # p

\* C4 witness: a returned pass updated a file whose content differed and left
\* alone another that matched.
C4_Witness ==
    /\ PassReturned
    /\ \E p \in ComparedFiles : repAtStart[p].data # src[p].data /\ Logged("UPDATE", p)
    /\ \E p \in ComparedFiles : repAtStart[p].data = src[p].data

\* C5: in every pass, no directory creation (and no CREATE record) comes
\* after a file copy (a COPY or UPDATE record); in particular a directory made
\* by the pass is made before any file inside it is copied.
C5_CreateBeforeCopy ==
    /\ \A i, j \in DOMAIN ops :
          (ops[i].kind \in {"COPY", "UPDATE"} /\ ops[j].kind \in {"makedirs", "makeroot"})
              => j < i
    /\ \A i, j \in DOMAIN PassRecords :
          (PassRecords[i].operation \in {"COPY", "UPDATE"}
               /\ PassRecords[j].operation = "CREATE") => j < i

\* C5 witness: a pass created directory "a" and then copied "a/x" into it.
C5_Witness ==
    /\ PassReturned
    /\ Performed({"makedirs"}, "a") /\ Logged("CREATE", "a")
    /\ Performed({"COPY"}, "a/x") /\ Logged("COPY", "a/x")

\* C6 (as stated): a pass that starts while the source root does not exist,
\* over a replica that holds entries, ends failed and removes nothing: the
\* replica is as the pass found it.
C6_MissingSourceFails ==
    (PassEnded /\ ~srcAtStart /\ Present(repAtStart) # {})
        => (pc = "raised" /\ rep = repAtStart)

\* C7 (as stated): with a path that is a directory on one side and a file on
\* the other, and no fault, the pass returns without an exception and the
\* replica then holds the source's kind at that path.
C7_KindConflict ==
    (PassEnded /\ FaultFree /\ srcAtStart) =>
        \A p \in KindConflicts : pc = "synced" /\ rep[p].type = src[p].type

\* C8 (as stated): a filesystem action that fails never aborts the pass: no
\* pass ends by the exception of a failed create, copy or remove.
C8_FailureIsolation ==
    ~(pc = "raised" /\ ops # <<>> /\ ~ops[Len(ops)].ok)

\* Files of the source snapshot whose fingerprint is unknown on one side at
\* least, the other side being a file or absent.
UnknownFingerprint ==
    {p \in DOMAIN source_contents.info :
        /\ source_contents.info[p].type = "file"
        /\ \/ source_contents.info[p].hash = None
           \/ /\ p \in DOMAIN replica_contents.info
              /\ replica_contents.info[p].type = "file"
              /\ replica_contents.info[p].hash = None}

\* C9 (as stated): in a pass that returned, with no other fault or kind
\* conflict, every file whose fingerprint could not be computed was copied
\* rather than skipped as already in sync.
C9_UnknownMeansCopy ==
    (PassReturned /\ denied = {} /\ KindConflicts = {}) =>
        \A p \in UnknownFingerprint : Attempted({"COPY", "UPDATE"}, p)

\* C10: once synchronize has raised, main starts no further pass: from the
\* except clause on, the program is in it or has returned, and the number of
\* passes started no longer changes.
C10_NoPassAfterFailure ==
    [][(pc \in {"raised", "returned"})
           => (pc' \in {"raised", "returned"} /\ passes' = passes)]_vars

\* C10 witness: main has returned from its except clause with iterations left.
C10_Witness == pc = "returned" /\ passes >= 1 /\ passes < amount

\* main has ended: the loop is over, the except clause returned, or the source
\* was missing at startup.
Terminated == pc \in {"completed", "returned", "nosource"}

\* The position of the program inside one loop iteration, counted down.
PcRank ==
    CASE pc = "sleep" -> 9 + (IF srcRoot THEN 1 ELSE 0)
      [] pc = "loop" -> 8
      [] pc = "pass" -> 7
      [] pc = "root" -> 6
      [] pc = "dirs" -> 5
      [] pc = "files" -> 4
      [] pc = "remove" -> 3
      [] pc = "synced" -> 2
      [] pc = "raised" -> 1
      [] OTHER -> 0

\* A variant of the driver: iterations left, then the position in the iteration.
Measure ==
    IF Terminated THEN 0
    ELSE IF pc = "main" THEN (amount + 2) * 12
    ELSE (amount - iteration) * 12 + PcRank

\* The steps of main and of synchronize outside its three loops.
DriverStep ==
    \/ MainStart
    \/ LoopHead
    \/ GetContents
    \/ CreateReplicaRoot
    \/ HandleException
    \/ EndIteration
    \/ Wake

\* C11: when the loop ends without a failed pass exactly `amount` passes were
\* started; a pass starts only at the loop head, after the pass before it has
\* returned; and main terminates: every step decreases a natural-number
\* variant, and until main has ended a step is possible (one of the driver's,
\* or one of the pass's three loops, which are loops over a finite snapshot).
C11_PassCountAndTermination ==
    /\ [](pc = "completed" => (passes = amount /\ iteration = amount))
    /\ [](passes <= amount /\ Measure >= 0)
    /\ [](~Terminated => (pc \in {"dirs", "files", "remove"} \/ ENABLED DriverStep))
    /\ [][Measure' < Measure]_vars
    /\ [][(passes' # passes)
            => (pc = "loop" /\ pc' = "pass" /\ passes' = passes + 1
                /\ passes = iteration)]_vars

\* C11 witness: the loop has ended after two passes that both returned.
C11_Witness == pc = "completed" /\ amount = 2 /\ passes = 2

\* Replica paths whose entry the running pass has changed.
Mutated == {p \in Paths : rep[p] # repAtStart[p]}

\* C12 (as stated): every change a pass makes to the replica is covered by a
\* record the pass appended: a record for the changed path, or a REMOVE record
\* for a directory above it.
C12_EveryMutationLogged ==
    InPass =>
        \A p \in Mutated :
            \/ \E i \in DOMAIN PassRecords : PassRecords[i].path = p
            \/ \E d \in Ancestors(p) : Logged("REMOVE", d)

\* The record log_operation is asked to write for a filesystem operation.
OpRecord(o) ==
    CASE o.kind = "makeroot" -> [operation |-> "CREATE", path |-> "<replica>"]
      [] o.kind = "makedirs" -> [operation |-> "CREATE", path |-> o.path]
      [] o.kind \in {"COPY", "UPDATE"} -> [operation |-> o.kind, path |-> o.path]
      [] o.kind \in {"remove", "rmtree"} -> [operation |-> "REMOVE", path |-> o.path]

\* The operations of the running pass that succeeded.
DoneOps == SelectSeq(ops, LAMBDA o : o.ok)

C14_CorruptLogRecovery ==
    (InPass /\ logEnv = "ok" /\ DoneOps # <<>>)
        => (/\ exc # "AttributeError"
            /\ logFile.kind = "list"
            /\ LogLen >= 1)

\* C15 (as stated): when the record cannot be persisted (the file cannot be
\* opened for writing, or its directory cannot be made), the pass is not
\* aborted: with no kind conflict, no pass ends by an exception.
C15_LogFailureNotFatal ==
    (InPass /\ logEnv \in {"nowrite", "nodir"} /\ logFile.kind # "notlist"
        /\ KindConflicts = {})
        => pc # "raised"

\* The first-pass scenario: a source holding only top-level files (at least
\* one), a replica without entries, no fault.
FirstPassScenario ==
    /\ PassReturned /\ FaultFree /\ srcAtStart /\ FilesOf(src) # {}
    /\ \A p \in Present(src) : src[p].type = "file" /\ Dirname(p) = ""
    /\ Present(repAtStart) = {}

\* The records are one COPY per source file, in some order, and nothing else.
OneCopyPerFile(recs) ==
    /\ Len(recs) = Cardinality(FilesOf(src))
    /\ \A i \in DOMAIN recs : recs[i].operation = "COPY"
    /\ \A p \in FilesOf(src) : \E i \in DOMAIN recs : recs[i].path = p

\* C16 (as stated): in the first-pass scenario, the replica root existing or
\* not, the pass logs one COPY per source file and nothing else, and performs
\* no other operation.
C16_FirstPass ==
    FirstPassScenario =>
        (/\ OneCopyPerFile(PassRecords)
         /\ \A i \in DOMAIN ops : ops[i].kind = "COPY")

\* C16 (amended): in the first-pass scenario, a replica root that does not
\* exist is first created and logged as one CREATE of the replica path; apart
\* from that the pass logs one COPY per source file and nothing else.
C16_FirstPassAmended ==
    FirstPassScenario =>
        IF rootAtStart
        THEN /\ OneCopyPerFile(PassRecords)
             /\ \A i \in DOMAIN ops : ops[i].kind = "COPY" /\ ops[i].ok
        ELSE /\ PassRecords # <<>>
             /\ PassRecords[1] = [operation |-> "CREATE", path |-> "<replica>"]
             /\ ops[1] = Op("makeroot", "", TRUE)
             /\ OneCopyPerFile(Tail(PassRecords))
             /\ \A i \in DOMAIN Tail(ops) : Tail(ops)[i].kind = "COPY" /\ Tail(ops)[i].ok

\* C16 witness: the scenario with two source files and a replica root that
\* did not exist.
C16_Witness ==
    FirstPassScenario /\ ~rootAtStart /\ Cardinality(FilesOf(src)) = 2

\* The pass has taken its snapshots.
Snapshotted == pc \in {"root", "dirs", "files", "remove", "synced", "raised"}

\* Files of both snapshots with equal fingerprints.
InSyncFiles ==
    {p \in DOMAIN source_contents.info \cap DOMAIN replica_contents.info :
        /\ source_contents.info[p].type = "file"
        /\ replica_contents.info[p].type = "file"
        /\ source_contents.info[p].hash = replica_contents.info[p].hash}

\* C17: in every pass, returned or aborted, a replica file whose path is a
\* source file with an equal fingerprint stays as it was: no operation is
\* attempted on it and no record names it.
C17_SteadyStateNoOp ==
    Snapshotted =>
        \A p \in InSyncFiles :
            /\ rep[p] = repAtStart[p]
            /\ \A i \in DOMAIN ops : ops[i].path # p
            /\ \A i \in DOMAIN PassRecords : PassRecords[i].path # p

\* C17 witness: a returned pass that updated another file while a nested file
\* was in sync.
C17_Witness ==
    /\ PassReturned /\ "a/x" \in InSyncFiles
    /\ Performed({"UPDATE"}, "b")

\* The update-and-remove scenario: source {a changed}, replica {a, b}.
UpdateRemoveScenario ==
    /\ PassReturned /\ FaultFree /\ srcAtStart
    /\ Present(src) = {"a"} /\ src["a"].type = "file"
    /\ Present(repAtStart) = {"a", "b"}
    /\ repAtStart["a"].type = "file" /\ repAtStart["b"].type = "file"
    /\ repAtStart["a"].data # src["a"].data

\* C18: in every pass no creation, copy or update (operation or record)
\* follows a removal; for source {a changed} and replica {a, b} the records are
\* UPDATE a, then REMOVE b.
C18_RemovalsLast ==
    /\ \A i, j \in DOMAIN ops :
          (ops[i].kind \in {"remove", "rmtree"} /\ i < j)
              => ops[j].kind \in {"remove", "rmtree"}
    /\ \A i, j \in DOMAIN PassRecords :
          (PassRecords[i].operation = "REMOVE" /\ i < j)
              => PassRecords[j].operation = "REMOVE"
    /\ UpdateRemoveScenario =>
          PassRecords = << [operation |-> "UPDATE", path |-> "a"],
                           [operation |-> "REMOVE", path |-> "b"] >>

\* C18 witness: the scenario's pass has returned.
C18_Witness == UpdateRemoveScenario /\ rootAtStart

\* C19: a pass removes (directly or below a removed directory) only entries
\* of the replica snapshot whose path is not in the source snapshot, and
\* attempts a removal only on such paths.
C19_DeletionsOnlyUnreconciled ==
    Snapshotted =>
        /\ \A p \in Paths :
              (Exists(repAtStart, p) /\ ~Exists(rep, p))
                  => (/\ p \in DOMAIN replica_contents.info
                      /\ p \notin DOMAIN source_contents.info)
        /\ \A i \in DOMAIN ops :
              ops[i].kind \in {"remove", "rmtree"}
                  => (/\ ops[i].path \in DOMAIN replica_contents.info
                      /\ ops[i].path \notin DOMAIN source_contents.info)

\* C19 witness: a returned pass removed a directory with nested content and
\* kept an entry that the source holds too.
C19_Witness ==
    /\ PassReturned
    /\ Performed({"rmtree"}, "a") /\ Exists(repAtStart, "a/x") /\ ~Exists(rep, "a/x")
    /\ Exists(repAtStart, "b") /\ Exists(rep, "b") /\ Exists(src, "b")

\* C20: no step of a pass, returned or aborted, changes the source: its root,
\* its paths and kinds, its contents and their readability.  Only the
\* environment changes it, while main sleeps.
C20_OneWay ==
    [][(pc # "sleep")
         => (srcRoot' = srcRoot /\ src' = src /\ srcUnr' = srcUnr)]_vars

\* C20 witness: an aborted pass that had copied or updated a file before it
\* raised, the source still holding its files.
C20_Witness ==
    /\ pc = "raised" /\ FilesOf(src) # {}
    /\ \E p \in Paths : Performed({"COPY", "UPDATE"}, p)

====
